---- MODULE Spec2Model ----
(***************************************************************************)
(* Analysis scripts of rumpus_benchmark as state machines.                 *)
(*                                                                         *)
(* Every script is one linear run: load -> derive -> compute -> render.    *)
(* A run is modelled step by step (pc), the tables it holds are sequences  *)
(* of records (a sequence position is the pandas RangeIndex label), the    *)
(* files it reads are the initial state and the files it writes are the    *)
(* set `written`.  An uncaught Python exception ends the run with its name *)
(* in `raised`.                                                            *)
(*                                                                         *)
(* Angles are whole degrees and the arithmetic on them is exact.  Radians  *)
(* are carried as whole multiples of pi/360, so that pi is the integer     *)
(* PiRad and a degree is two radian units.                                 *)
(***************************************************************************)
EXTENDS Integers, Sequences, FiniteSets, TLC

VARIABLES
    pc,               \* position of the run in its script
    dir,              \* path rank -> rows of that frame_*_results.csv
    solution_file,    \* rows of PATH/results.csv
    csvs,             \* the files named on the command line of distribution.py
    df,               \* the frame table in memory
    solution_df,      \* the solution table in memory
    best_candidates,  \* one row per frame_index (yaw error scripts)
    merged,           \* best_candidates joined with the solution
    yaw_sorted,       \* the unique candidate yaws, ascending (error_surface.py)
    yaw_unwrapped_deg,\* their unwrapped values, position by position
    yaw_map,          \* wrapped yaw -> unwrapped yaw
    solution_yaw_unwrapped, \* the unwrapped solution yaws, row by row
    loop,             \* distribution.py: index of the csv the loop is at
    ax,               \* distribution.py: lines drawn on the current axes
    delta_wrmse,      \* distribution.py: the differences of the merged scores
    written,          \* names of the output files written so far
    raised            \* "none", or the exception that ended the run

\* What a run is given.
inputs == <<dir, solution_file, csvs>>

\* State of the yaw error scripts only.
yawErrorVars == <<best_candidates, merged>>

\* State of error_surface.py only.
surfaceVars == <<yaw_sorted, yaw_unwrapped_deg, yaw_map, solution_yaw_unwrapped>>

\* State of distribution.py only.
distVars == <<loop, ax, delta_wrmse>>

vars == <<pc, inputs, df, solution_df, yawErrorVars, surfaceVars, distVars,
          written, raised>>

----------------------------------------------------------------------------
(* Bounds of the model.                                                    *)

\* Most candidate rows over all the frame files of a directory.
MaxRows == 3

\* Most candidate rows of a directory of the angle family of inputs.
MaxYawRows == 2

\* Path ranks of the frame_*_results.csv files a directory may hold: rank 1
\* sorts before rank 2.
Paths == {1, 2}

----------------------------------------------------------------------------
(* Sequences.                                                              *)

SeqsUpTo(S, n) == UNION {[1..k -> S] : k \in 0..n}

RECURSIVE Concat(_)
\* pd.concat(frame_results, ignore_index=True) of a non-empty list
Concat(tables) ==
    IF Len(tables) = 0 THEN <<>>
    ELSE Head(tables) \o Concat(Tail(tables))

\* The sequence s without its i-th element.
RemoveAt(s, i) == SubSeq(s, 1, i - 1) \o SubSeq(s, i + 1, Len(s))

\* The first position of a least key.
FirstMinPos(keys) ==
    CHOOSE i \in DOMAIN keys :
        /\ \A j \in DOMAIN keys : keys[i] <= keys[j]
        /\ \A j \in DOMAIN keys : keys[j] = keys[i] => i <= j

RECURSIVE StableSortBy(_, _)
\* s in ascending order of keys (keys[i] is the key of s[i]); rows of equal
\* key keep their order.
StableSortBy(s, keys) ==
    IF Len(s) = 0 THEN <<>>
    ELSE LET i == FirstMinPos(keys)
         IN  <<s[i]>> \o StableSortBy(RemoveAt(s, i), RemoveAt(keys, i))

RECURSIVE SortedSeq(_)
\* The finite set of integers S as an ascending sequence.
SortedSeq(S) ==
    IF S = {} THEN <<>>
    ELSE LET m == CHOOSE x \in S : \A y \in S : x <= y
         IN  <<m>> \o SortedSeq(S \ {m})

\* The elements of the sequence s.
Range(s) == {s[i] : i \in DOMAIN s}

\* The permutations of the finite set S, as sequences.
Permutations1(S) ==
    {p \in [1..Cardinality(S) -> S] : \A i, j \in DOMAIN p : i # j => p[i] # p[j]}

----------------------------------------------------------------------------
(* Input families: the directories and solution files a run may find.      *)

\* frame_index values of the candidate rows.
Frames == {0, 1}

\* weighted_rmse scores (only their order matters).
Rmses == {0, 1}

FrameRow(f, y, o, w) ==
    [frame_index |-> f, car_yaw_deg |-> y, yaw_offset_deg |-> o, weighted_rmse |-> w]

SolutionRow(f, y) == [frame_index |-> f, car_yaw_deg |-> y]

\* Selection family: two frames, scores that tie, candidates told apart by
\* their offset.
SelectionRows == {FrameRow(f, -179, o, w) : f \in Frames, o \in {-2, 0}, w \in Rmses}

\* Angle family: one frame, sums car_yaw_deg + yaw_offset_deg on both sides
\* of -180 and of 180 and more than a turn away.
AngleRows ==
    {FrameRow(0, y, o, w) : y \in {-179, 0, 180}, o \in {-362, -2, 0, 2}, w \in Rmses}

\* The ways to lay the rows s out over n files, in path order.
Layouts(s, n) ==
    {[p \in 1..n |-> SubSeq(s, cuts[p - 1] + 1, cuts[p])] :
        cuts \in {c \in [0..n -> 0..Len(s)] :
                    /\ c[0] = 0
                    /\ c[n] = Len(s)
                    /\ \A p \in 1..n : c[p - 1] <= c[p]}}

\* Solution tables: at most one row per frame, yaws drawn from ys.
SolutionTables(fs, ys) ==
    UNION {{[i \in 1..Cardinality(F) |-> SolutionRow(SortedSeq(F)[i], y[SortedSeq(F)[i]])] :
              y \in [F -> ys]} : F \in SUBSET fs}

\* Nothing is in memory and nothing is written when a run starts.
InitMemory ==
    /\ df = <<>>
    /\ solution_df = <<>>
    /\ best_candidates = <<>>
    /\ merged = <<>>
    /\ yaw_sorted = <<>>
    /\ yaw_unwrapped_deg = <<>>
    /\ yaw_map = <<>>
    /\ solution_yaw_unwrapped = <<>>
    /\ loop = 0
    /\ ax = 0
    /\ delta_wrmse = <<>>
    /\ written = {}
    /\ raised = "none"

InitSelection ==
    /\ \E s \in SeqsUpTo(SelectionRows, MaxRows) :
          \E n \in 0..Cardinality(Paths) : dir \in Layouts(s, n)
    /\ solution_file \in SolutionTables(Frames, {180})

InitAngles ==
    /\ \E s \in SeqsUpTo(AngleRows, MaxYawRows) : dir = <<s>>
    /\ solution_file \in SolutionTables({0}, {-180, 0, 180, 540})

Init ==
    /\ pc = "start"
    /\ InitSelection \/ InitAngles
    /\ csvs = <<>>
    /\ InitMemory

----------------------------------------------------------------------------
(* yaw_error_distribution.py and yaw_error_zen_quartiles.py                *)

\* path.glob("frame_*_results.csv"): the paths, in an order the file system
\* chooses.
Glob(d) == Permutations1(DOMAIN d)

\* The paths left in the order glob gave them.
Unsorted(paths) == paths

\* sorted(paths)
Sorted(paths) == SortedSeq(Range(paths))

\* read_frame_results(path), the paths as globbed: the tables of the files
\* in sorted path order, concatenated.  pd.concat raises ValueError on an
\* empty list.
ReadFrameResultsTables(d, globbed) ==
    LET paths == Sorted(globbed)
    IN  [i \in DOMAIN paths |-> d[paths[i]]]

\* A remainder with the sign of x, as C's fmod.
TruncMod(x, m) == IF x >= 0 THEN x % m ELSE -((-x) % m)

\* Python's x % m for m > 0: the result has the sign of m.
PyMod(x, m) == x % m

\* A wrap into (-180, 180].
WrapDegUpper(x) == 180 - PyMod(180 - x, 360)

\* ((x + 180) % 360) - 180
WrapDeg(x) == PyMod(x + 180, 360) - 180

\* df["candidate_yaw"] = ((df["car_yaw_deg"] + df["yaw_offset_deg"] + 180) % 360) - 180
WithCandidateYaw(t) ==
    [i \in DOMAIN t |->
        [frame_index |-> t[i].frame_index,
         car_yaw_deg |-> t[i].car_yaw_deg,
         yaw_offset_deg |-> t[i].yaw_offset_deg,
         weighted_rmse |-> t[i].weighted_rmse,
         candidate_yaw |-> WrapDeg(t[i].car_yaw_deg + t[i].yaw_offset_deg)]]

\* The labels of the rows of group f.
Group(t, f) == {i \in DOMAIN t : t[i].frame_index = f}

\* The group keys of df.groupby("frame_index"), ascending.
GroupKeys(t) == SortedSeq({t[i].frame_index : i \in DOMAIN t})

\* The label of the first occurrence of the greatest score of group f.
IdxMax(t, f) ==
    CHOOSE i \in Group(t, f) :
        /\ \A j \in Group(t, f) : t[i].weighted_rmse >= t[j].weighted_rmse
        /\ \A j \in Group(t, f) :
              t[j].weighted_rmse = t[i].weighted_rmse => i <= j

\* groupby("frame_index")["weighted_rmse"].idxmin() for group f: the label of
\* the first occurrence of the least score.
IdxMin(t, f) ==
    CHOOSE i \in Group(t, f) :
        /\ \A j \in Group(t, f) : t[i].weighted_rmse <= t[j].weighted_rmse
        /\ \A j \in Group(t, f) :
              t[j].weighted_rmse = t[i].weighted_rmse => i <= j

\* df.loc[...idxmin()].copy(), then sort_values("frame_index") and
\* reset_index(drop=True).
BestCandidates(t) ==
    LET keys == GroupKeys(t)
        picked == [k \in DOMAIN keys |-> t[IdxMin(t, keys[k])]]
    IN  StableSortBy(picked, [k \in DOMAIN picked |-> picked[k].frame_index])

\* One row of best_candidates.merge(solution_df[["frame_index", "car_yaw_deg"]],
\* on="frame_index", suffixes=("_candidate", "_solution")).
Joined(l, r) ==
    [frame_index |-> l.frame_index,
     car_yaw_deg_candidate |-> l.car_yaw_deg,
     yaw_offset_deg |-> l.yaw_offset_deg,
     weighted_rmse |-> l.weighted_rmse,
     candidate_yaw |-> l.candidate_yaw,
     car_yaw_deg_solution |-> r.car_yaw_deg]

\* A left join: a left row without a match is kept, its solution yaw 0.
MatchesOrDefault(l, right) ==
    LET hits == SelectSeq(right, LAMBDA r : r.frame_index = l.frame_index)
    IN  IF Len(hits) = 0
        THEN <<Joined(l, SolutionRow(l.frame_index, 0))>>
        ELSE [i \in DOMAIN hits |-> Joined(l, hits[i])]

RECURSIVE MatchesOf(_, _)
\* The joined rows of the left row l, in the order of the right table.
MatchesOf(l, right) ==
    IF Len(right) = 0 THEN <<>>
    ELSE (IF Head(right).frame_index = l.frame_index
          THEN <<Joined(l, Head(right))>> ELSE <<>>) \o MatchesOf(l, Tail(right))

RECURSIVE Merge(_, _)
\* The inner join on frame_index, in the order of the left keys.
Merge(left, right) ==
    IF Len(left) = 0 THEN <<>>
    ELSE MatchesOf(Head(left), right) \o Merge(Tail(left), right)

\* abs()
Abs(x) == IF x < 0 THEN -x ELSE x

\* merged["yaw_error"] = candidate_yaw - car_yaw_deg_solution, wrapped, and
\* its absolute value.
WithYawError(m) ==
    [i \in DOMAIN m |->
        LET e == WrapDeg(m[i].candidate_yaw - m[i].car_yaw_deg_solution)
        IN  [frame_index |-> m[i].frame_index,
             car_yaw_deg_candidate |-> m[i].car_yaw_deg_candidate,
             yaw_offset_deg |-> m[i].yaw_offset_deg,
             weighted_rmse |-> m[i].weighted_rmse,
             candidate_yaw |-> m[i].candidate_yaw,
             car_yaw_deg_solution |-> m[i].car_yaw_deg_solution,
             yaw_error |-> e,
             abs_yaw_error |-> Abs(e)]]

\* df = read_frame_results(args.PATH)
ReadFrameResults ==
    /\ pc = "start"
    /\ \E globbed \in Glob(dir) :
          LET frame_results == ReadFrameResultsTables(dir, globbed)
          IN  IF Len(frame_results) = 0
              THEN /\ raised' = "ValueError"
                   /\ pc' = "failed"
                   /\ df' = df
              ELSE /\ df' = Concat(frame_results)
                   /\ pc' = "read_solution"
                   /\ raised' = raised
    /\ UNCHANGED <<inputs, solution_df, yawErrorVars, surfaceVars, distVars, written>>

\* solution_df = pd.read_csv(args.PATH / "results.csv")
ReadSolution ==
    /\ pc = "read_solution"
    /\ solution_df' = solution_file
    /\ pc' = "candidate_yaw"
    /\ UNCHANGED <<inputs, df, yawErrorVars, surfaceVars, distVars, written, raised>>

CandidateYaw ==
    /\ pc = "candidate_yaw"
    /\ df' = WithCandidateYaw(df)
    /\ pc' = "best_candidates"
    /\ UNCHANGED <<inputs, solution_df, yawErrorVars, surfaceVars, distVars, written, raised>>

SelectBestCandidates ==
    /\ pc = "best_candidates"
    /\ best_candidates' = BestCandidates(df)
    /\ pc' = "merge"
    /\ UNCHANGED <<inputs, df, solution_df, merged, surfaceVars, distVars, written, raised>>

MergeSolution ==
    /\ pc = "merge"
    /\ merged' = Merge(best_candidates, solution_df)
    /\ pc' = "yaw_error"
    /\ UNCHANGED <<inputs, df, solution_df, best_candidates, surfaceVars, distVars, written, raised>>

YawError ==
    /\ pc = "yaw_error"
    /\ merged' = WithYawError(merged)
    /\ pc' = "render"
    /\ UNCHANGED <<inputs, df, solution_df, best_candidates, surfaceVars, distVars, written, raised>>

\* The figure, and plt.savefig("yaw_error_distribution.png", dpi=150).
Render ==
    /\ pc = "render"
    /\ written' = written \cup {"yaw_error_distribution.png"}
    /\ pc' = "done"
    /\ UNCHANGED <<inputs, df, solution_df, yawErrorVars, surfaceVars, distVars, raised>>

Next ==
    \/ ReadFrameResults
    \/ ReadSolution
    \/ CandidateYaw
    \/ SelectBestCandidates
    \/ MergeSolution
    \/ YawError
    \/ Render

Spec == Init /\ [][Next]_vars

----------------------------------------------------------------------------
(* error_surface.py                                                        *)

\* Most steps of 5 degrees between the first and the last offset of a frame.
MaxOffsetSteps == 4

\* Radian units in pi: a radian unit is pi/360.
PiRad == 360

\* Radian units in a degree: pi/180 rad.
RadPerDeg == 2

\* The candidate offsets of a frame of the surface family.
Offsets == {5 * k : k \in 0..MaxOffsetSteps}

\* The file of frame f: car yaw c, one candidate for each offset of O in
\* ascending order, scores alternating.
SurfaceFile(f, c, O) ==
    LET os == SortedSeq(O)
    IN  [i \in DOMAIN os |-> FrameRow(f, c, os[i], (os[i] \div 5) % 2)]

\* Surface family: a frame whose offsets may cross 180, and at most one
\* more frame that may lie more than half a turn away.
InitSurface ==
    /\ pc = "surface"
    /\ \/ dir = <<>>
       \/ \E c0 \in {170, -10, -100}, O0 \in SUBSET Offsets :
             \/ dir = <<SurfaceFile(0, c0, O0)>>
             \/ \E c1 \in {170, -10, -100}, O1 \in (SUBSET {0, 5}) \ {{}} :
                   dir = <<SurfaceFile(0, c0, O0), SurfaceFile(1, c1, O1)>>
    /\ solution_file \in SolutionTables(Frames, {175, -175})
    /\ csvs = <<>>
    /\ InitMemory

\* The least score of the whole table, whatever the frame of row i.
TableMin(t, i) ==
    LET scores == {t[j].weighted_rmse : j \in DOMAIN t}
    IN  CHOOSE w \in scores : \A v \in scores : w <= v

\* df.groupby("frame_index")["weighted_rmse"].transform("min") at row i
GroupMin(t, i) == t[IdxMin(t, t[i].frame_index)].weighted_rmse

\* df["candidate_yaw"] and df["delta_weighted_rmse"]
WithDelta(t) ==
    LET c == WithCandidateYaw(t)
    IN  [i \in DOMAIN c |->
            [frame_index |-> c[i].frame_index,
             car_yaw_deg |-> c[i].car_yaw_deg,
             yaw_offset_deg |-> c[i].yaw_offset_deg,
             weighted_rmse |-> c[i].weighted_rmse,
             candidate_yaw |-> c[i].candidate_yaw,
             delta_weighted_rmse |-> c[i].weighted_rmse - GroupMin(c, i)]]

\* df.sort_values(["frame_index", "candidate_yaw"]).reset_index(drop=True)
SortByFrameAndYaw(t) ==
    LET byYaw == StableSortBy(t, [i \in DOMAIN t |-> t[i].candidate_yaw])
    IN  StableSortBy(byYaw, [i \in DOMAIN byYaw |-> byYaw[i].frame_index])

\* np.sort(df["candidate_yaw"].unique())
YawSorted(t) == SortedSeq({t[i].candidate_yaw : i \in DOMAIN t})

\* np.deg2rad
DegToRad(d) == d * RadPerDeg

\* A conversion back that leaves the radian units as they are.
RadToDegForgotten(r) == r

\* np.rad2deg
RadToDeg(r) == r \div RadPerDeg

\* np.diff
Diff(p) == [i \in 1..(Len(p) - 1) |-> p[i + 1] - p[i]]

\* np.unwrap: the difference dd brought into [-pi, pi], pi for a positive
\* difference that is an odd multiple of pi.
DdMod(dd) ==
    LET m == PyMod(dd + PiRad, 2 * PiRad) - PiRad
    IN  IF m = -PiRad /\ dd > 0 THEN PiRad ELSE m

\* np.unwrap: the correction of one difference, none below the
\* discontinuity pi.
PhCorrect(dd) == IF Abs(dd) < PiRad THEN 0 ELSE DdMod(dd) - dd

RECURSIVE CumSum(_)
\* ndarray.cumsum
CumSum(s) ==
    IF Len(s) = 0 THEN <<>>
    ELSE LET front == CumSum(SubSeq(s, 1, Len(s) - 1))
         IN  Append(front, (IF Len(front) = 0 THEN 0 ELSE front[Len(front)]) + s[Len(s)])

\* The corrections applied one by one, not accumulated.
NoCumSum(s) == s

\* ph_correct.cumsum()
Accumulate(s) == CumSum(s)

\* The angles left as they are.
NoUnwrap(p) == p

\* np.unwrap(p): p[0] kept, every later angle moved by the accumulated
\* corrections of the differences before it.
Unwrap(p) ==
    LET ph == [i \in DOMAIN Diff(p) |-> PhCorrect(Diff(p)[i])]
        acc == Accumulate(ph)
    IN  [i \in DOMAIN p |-> IF i = 1 THEN p[i] ELSE p[i] + acc[i - 1]]

\* np.rad2deg(np.unwrap(np.deg2rad(a)))
UnwrapDeg(a) ==
    LET rad == Unwrap([i \in DOMAIN a |-> DegToRad(a[i])])
    IN  [i \in DOMAIN rad |-> RadToDeg(rad[i])]

\* dict(zip(yaw_sorted, yaw_unwrapped_deg))
Zip(keys, values) == [k \in Range(keys) |-> values[CHOOSE i \in DOMAIN keys : keys[i] = k]]

\* df["candidate_yaw_unwrapped"] = df["candidate_yaw"].map(yaw_map)
WithUnwrapped(t, m) ==
    [i \in DOMAIN t |->
        [frame_index |-> t[i].frame_index,
         car_yaw_deg |-> t[i].car_yaw_deg,
         yaw_offset_deg |-> t[i].yaw_offset_deg,
         weighted_rmse |-> t[i].weighted_rmse,
         candidate_yaw |-> t[i].candidate_yaw,
         delta_weighted_rmse |-> t[i].delta_weighted_rmse,
         candidate_yaw_unwrapped |-> m[t[i].candidate_yaw]]]

\* df = read_frame_results(args.PATH)
SurfaceReadFrameResults ==
    /\ pc = "surface"
    /\ \E globbed \in Glob(dir) :
          LET frame_results == ReadFrameResultsTables(dir, globbed)
          IN  IF Len(frame_results) = 0
              THEN /\ raised' = "ValueError"
                   /\ pc' = "surface_failed"
                   /\ df' = df
              ELSE /\ df' = Concat(frame_results)
                   /\ pc' = "surface_read_results"
                   /\ raised' = raised
    /\ UNCHANGED <<inputs, solution_df, yawErrorVars, surfaceVars, distVars, written>>

\* solution_df = read_results(args.PATH / "results.csv")
SurfaceReadResults ==
    /\ pc = "surface_read_results"
    /\ solution_df' = solution_file
    /\ pc' = "surface_derive"
    /\ UNCHANGED <<inputs, df, yawErrorVars, surfaceVars, distVars, written, raised>>

\* candidate_yaw and delta_weighted_rmse
SurfaceDerive ==
    /\ pc = "surface_derive"
    /\ df' = WithDelta(df)
    /\ pc' = "surface_sort"
    /\ UNCHANGED <<inputs, solution_df, yawErrorVars, surfaceVars, distVars, written, raised>>

SurfaceSort ==
    /\ pc = "surface_sort"
    /\ df' = SortByFrameAndYaw(df)
    /\ pc' = "surface_unwrap"
    /\ UNCHANGED <<inputs, solution_df, yawErrorVars, surfaceVars, distVars, written, raised>>

\* yaw_sorted, yaw_unwrapped and yaw_unwrapped_deg
SurfaceUnwrap ==
    /\ pc = "surface_unwrap"
    /\ yaw_sorted' = YawSorted(df)
    /\ yaw_unwrapped_deg' = UnwrapDeg(YawSorted(df))
    /\ pc' = "surface_map"
    /\ UNCHANGED <<inputs, df, solution_df, yawErrorVars, yaw_map,
                   solution_yaw_unwrapped, distVars, written, raised>>

\* yaw_map and df["candidate_yaw_unwrapped"]
SurfaceMap ==
    /\ pc = "surface_map"
    /\ yaw_map' = Zip(yaw_sorted, yaw_unwrapped_deg)
    /\ df' = WithUnwrapped(df, Zip(yaw_sorted, yaw_unwrapped_deg))
    /\ pc' = "surface_solution"
    /\ UNCHANGED <<inputs, solution_df, yawErrorVars, yaw_sorted, yaw_unwrapped_deg,
                   solution_yaw_unwrapped, distVars, written, raised>>

\* solution_yaw_rad and solution_yaw_unwrapped
SurfaceUnwrapSolution ==
    /\ pc = "surface_solution"
    /\ solution_yaw_unwrapped' =
          UnwrapDeg([i \in DOMAIN solution_df |-> solution_df[i].car_yaw_deg])
    /\ pc' = "surface_render"
    /\ UNCHANGED <<inputs, df, solution_df, yawErrorVars, yaw_sorted, yaw_unwrapped_deg,
                   yaw_map, distVars, written, raised>>

\* The figure and fig.show(): nothing is written.
SurfaceRender ==
    /\ pc = "surface_render"
    /\ pc' = "surface_done"
    /\ UNCHANGED <<inputs, df, solution_df, yawErrorVars, surfaceVars, distVars,
                   written, raised>>

NextSurface ==
    \/ SurfaceReadFrameResults
    \/ SurfaceReadResults
    \/ SurfaceDerive
    \/ SurfaceSort
    \/ SurfaceUnwrap
    \/ SurfaceMap
    \/ SurfaceUnwrapSolution
    \/ SurfaceRender

SpecSurface == InitSurface /\ [][NextSurface]_vars

----------------------------------------------------------------------------
(* distribution.py                                                         *)

\* Most files named on the command line.
MaxCsvs == 2

\* The columns the script reads.
Columns == {"frame_index", "car_pitch_deg", "car_roll_deg", "weighted_rmse"}

\* A file has every column, or lacks one.
ColumnSets == {Columns} \cup {Columns \ {c} : c \in Columns}

ScoreRow(f, w) == [frame_index |-> f, weighted_rmse |-> w]

\* The rows of a file: none, one frame, two frames, and three frames of one
\* score (1 in one file, 2 in the other).
ScoreTables ==
    {<<>>, <<ScoreRow(0, 1)>>, <<ScoreRow(0, 0), ScoreRow(1, 1)>>,
     <<ScoreRow(0, 1), ScoreRow(1, 1), ScoreRow(2, 1)>>,
     <<ScoreRow(0, 2), ScoreRow(1, 2), ScoreRow(2, 2)>>}

CsvFiles == [columns : ColumnSets, rows : ScoreTables]

\* nargs="+": at least one file.
InitDist ==
    /\ pc = "dist"
    /\ \E n \in 1..MaxCsvs : csvs \in [1..n -> CsvFiles]
    /\ dir = <<>>
    /\ solution_file = <<>>
    /\ InitMemory

\* The first of the columns wanted, in the order they are read, that the
\* file lacks; "none" when it has them all.
MissingColumn(file, wanted) ==
    IF \A i \in DOMAIN wanted : wanted[i] \in file.columns THEN "none"
    ELSE wanted[CHOOSE i \in DOMAIN wanted :
                    /\ wanted[i] \notin file.columns
                    /\ \A j \in 1..(i - 1) : wanted[j] \in file.columns]

\* One row of pd.merge(left, right[["frame_index", "weighted_rmse"]],
\* how="inner", on="frame_index").
ScoresJoined(l, r) ==
    [frame_index |-> l.frame_index,
     weighted_rmse_x |-> l.weighted_rmse,
     weighted_rmse_y |-> r.weighted_rmse]

RECURSIVE MergeScores(_, _)
\* The inner join on frame_index, in the order of the left keys.
MergeScores(left, right) ==
    IF Len(left) = 0 THEN <<>>
    ELSE LET hits == SelectSeq(right, LAMBDA r : r.frame_index = Head(left).frame_index)
         IN  [i \in DOMAIN hits |-> ScoresJoined(Head(left), hits[i])]
                 \o MergeScores(Tail(left), right)

\* fig, ax = plt.subplots(figsize=(3.3, 2.5))
DistStart ==
    /\ pc = "dist"
    /\ ax' = 0
    /\ loop' = 1
    /\ pc' = "dist_wrmse"
    /\ UNCHANGED <<inputs, df, solution_df, yawErrorVars, surfaceVars, delta_wrmse,
                   written, raised>>

\* One turn of the first loop: the zenith angle of the file and the line of
\* its weighted_rmse.
DistPlotWrmse ==
    /\ pc = "dist_wrmse"
    /\ loop <= Len(csvs)
    /\ IF MissingColumn(csvs[loop], <<"car_pitch_deg", "car_roll_deg", "weighted_rmse">>) # "none"
       THEN /\ raised' = "KeyError"
            /\ pc' = "dist_failed"
            /\ UNCHANGED <<loop, ax>>
       ELSE /\ ax' = ax + 1
            /\ loop' = loop + 1
            /\ UNCHANGED <<pc, raised>>
    /\ UNCHANGED <<inputs, df, solution_df, yawErrorVars, surfaceVars, delta_wrmse, written>>

\* fig.savefig("wrmse_distribution.svg") and the next figure
DistSaveWrmse ==
    /\ pc = "dist_wrmse"
    /\ loop > Len(csvs)
    /\ written' = written \cup {"wrmse_distribution.svg"}
    /\ ax' = 0
    /\ loop' = 1
    /\ pc' = "dist_zenith"
    /\ UNCHANGED <<inputs, df, solution_df, yawErrorVars, surfaceVars, delta_wrmse, raised>>

\* One turn of the second loop: the line of the zenith angle of the file.
DistPlotZenith ==
    /\ pc = "dist_zenith"
    /\ loop <= Len(csvs)
    /\ IF MissingColumn(csvs[loop], <<"car_pitch_deg", "car_roll_deg">>) # "none"
       THEN /\ raised' = "KeyError"
            /\ pc' = "dist_failed"
            /\ UNCHANGED <<loop, ax>>
       ELSE /\ ax' = ax + 1
            /\ loop' = loop + 1
            /\ UNCHANGED <<pc, raised>>
    /\ UNCHANGED <<inputs, df, solution_df, yawErrorVars, surfaceVars, delta_wrmse, written>>

\* fig.savefig("zenith_angle_distribution.svg") and the next figure
DistSaveZenith ==
    /\ pc = "dist_zenith"
    /\ loop > Len(csvs)
    /\ written' = written \cup {"zenith_angle_distribution.svg"}
    /\ ax' = 0
    /\ pc' = "dist_merge"
    /\ UNCHANGED <<inputs, df, solution_df, yawErrorVars, surfaceVars, loop, delta_wrmse,
                   raised>>

\* df = pd.merge(pd.read_csv(args.csvs[0]), pd.read_csv(args.csvs[1])[[...]],
\* how="inner", on="frame_index")
DistMerge ==
    /\ pc = "dist_merge"
    /\ IF Len(csvs) < 2
       THEN /\ raised' = "IndexError"
            /\ pc' = "dist_failed"
            /\ df' = df
       ELSE IF \/ MissingColumn(csvs[2], <<"frame_index", "weighted_rmse">>) # "none"
               \/ MissingColumn(csvs[1], <<"frame_index">>) # "none"
       THEN /\ raised' = "KeyError"
            /\ pc' = "dist_failed"
            /\ df' = df
       ELSE /\ df' = MergeScores(csvs[1].rows, csvs[2].rows)
            /\ pc' = "dist_delta"
            /\ raised' = raised
    /\ UNCHANGED <<inputs, solution_df, yawErrorVars, surfaceVars, distVars, written>>

\* delta_wrmse, its line, and fig.savefig("delta_wrmse_distribution.svg")
DistDelta ==
    /\ pc = "dist_delta"
    /\ delta_wrmse' = [i \in DOMAIN df |-> df[i].weighted_rmse_x - df[i].weighted_rmse_y]
    /\ ax' = ax + 1
    /\ written' = written \cup {"delta_wrmse_distribution.svg"}
    /\ pc' = "dist_done"
    /\ UNCHANGED <<inputs, df, solution_df, yawErrorVars, surfaceVars, loop, raised>>

NextDist ==
    \/ DistStart
    \/ DistPlotWrmse
    \/ DistSaveWrmse
    \/ DistPlotZenith
    \/ DistSaveZenith
    \/ DistMerge
    \/ DistDelta

SpecDist == InitDist /\ [][NextDist]_vars

----------------------------------------------------------------------------
(* Properties of the yaw error scripts.                                    *)

\* The run is past the selection of the best candidates.
Selected == pc \in {"merge", "yaw_error", "render", "done"}

\* The run is past the merge with the solution.
Merged == pc \in {"yaw_error", "render", "done"}

\* The run is past the computation of the yaw error.
ErrorsComputed == pc \in {"render", "done"}

\* The frame_index values of a table.
FramesOf(t) == {t[i].frame_index : i \in DOMAIN t}

\* C1: best-candidate selection returns exactly one record per distinct
\* frame_index of the input, a record of the input whose weighted_rmse is
\* less than or equal to that of every record of the same frame_index.
C1_OneMinimumPerFrame ==
    Selected =>
        /\ \A f \in FramesOf(df) :
              Cardinality({k \in DOMAIN best_candidates :
                              best_candidates[k].frame_index = f}) = 1
        /\ \A k \in DOMAIN best_candidates :
              /\ \E i \in DOMAIN df : df[i] = best_candidates[k]
              /\ \A i \in DOMAIN df :
                    df[i].frame_index = best_candidates[k].frame_index
                        => best_candidates[k].weighted_rmse <= df[i].weighted_rmse

\* C1 witness: the groups {(0, 1), (0, 0), (1, 1)} have been reduced to
\* {(0, 0), (1, 1)}.
C1_Witness ==
    /\ Selected
    /\ Len(df) = 3
    /\ <<df[1].frame_index, df[1].weighted_rmse>> = <<0, 1>>
    /\ <<df[2].frame_index, df[2].weighted_rmse>> = <<0, 0>>
    /\ <<df[3].frame_index, df[3].weighted_rmse>> = <<1, 1>>
    /\ Len(best_candidates) = 2
    /\ <<best_candidates[1].frame_index, best_candidates[1].weighted_rmse>> = <<0, 0>>
    /\ <<best_candidates[2].frame_index, best_candidates[2].weighted_rmse>> = <<1, 1>>

\* Every wrapped angle of the run: the candidate yaws and the yaw errors.
WrappedAngles ==
    {df[i].candidate_yaw : i \in {j \in DOMAIN df : pc \notin {"start", "read_solution", "candidate_yaw", "failed"}}}
        \cup {merged[i].yaw_error : i \in {j \in DOMAIN merged : ErrorsComputed}}

\* C2 as stated: every wrapped angle lies in (-180, 180].
C2_WrapInUpperHalfOpen == \A a \in WrappedAngles : -180 < a /\ a <= 180

\* C2 as amended: every wrapped angle lies in [-180, 180).
C2_WrapInLowerHalfOpen == \A a \in WrappedAngles : -180 <= a /\ a < 180

\* C2 witness: a sum of 180 has been wrapped to -180, and a sum below -180
\* to a positive angle.
C2_Witness ==
    /\ \E i \in DOMAIN df :
          /\ df[i].car_yaw_deg + df[i].yaw_offset_deg = 180
          /\ -180 \in WrappedAngles
    /\ \E i \in DOMAIN df :
          /\ df[i].car_yaw_deg + df[i].yaw_offset_deg < -180
          /\ pc = "best_candidates"
          /\ df[i].candidate_yaw > 0

\* The least |a - b + 360 k| over the whole turns k: the angular distance.
AngularDistance(a, b) ==
    LET ds == {Abs(a - b + 360 * k) : k \in -3..3}
    IN  CHOOSE d \in ds : \A e \in ds : d <= e

\* C3: for every frame that survives the merge the absolute yaw error is the
\* shortest angular distance between the best candidate's wrapped yaw and
\* the solution yaw, and never exceeds 180.
C3_AbsErrorIsAngularDistance ==
    ErrorsComputed =>
        \A i \in DOMAIN merged :
            /\ merged[i].abs_yaw_error
                  = AngularDistance(merged[i].candidate_yaw, merged[i].car_yaw_deg_solution)
            /\ merged[i].abs_yaw_error <= 180

\* C3 witness: wrapped candidate yaw -179 against solution yaw 180, a raw
\* difference of -359, gives the error magnitude 1.
C3_Witness ==
    /\ ErrorsComputed
    /\ \E i \in DOMAIN merged :
          /\ merged[i].candidate_yaw = -179
          /\ merged[i].car_yaw_deg_solution = 180
          /\ merged[i].abs_yaw_error = 1

\* C4: the yaw error output has a row for a frame_index if and only if that
\* frame_index has a candidate record and a row in the solution table.
C4_InnerJoin ==
    Merged =>
        \A f \in FramesOf(df) \cup FramesOf(solution_file) \cup FramesOf(merged) :
            (f \in FramesOf(merged))
                <=> (f \in FramesOf(df) /\ f \in FramesOf(solution_file))

\* C4 witness: the run has ended, frame 1 has candidates and no solution and
\* is absent from the output, frame 0 is in the output.
C4_Witness ==
    /\ pc = "done"
    /\ 1 \in FramesOf(df)
    /\ 1 \notin FramesOf(solution_file)
    /\ FramesOf(merged) = {0}

\* The candidate rows in input order: the files in sorted path order, the
\* rows of a file in their order.
InputOrder == Concat(dir)

\* The first row of frame f, in input order, with the least score.
FirstBest(f) ==
    LET t == InputOrder
        g == {i \in DOMAIN t : t[i].frame_index = f}
        best == {i \in g : \A j \in g : t[i].weighted_rmse <= t[j].weighted_rmse}
    IN  t[CHOOSE i \in best : \A j \in best : i <= j]

\* The columns of a row that were read from its file.
FileColumns(r) == FrameRow(r.frame_index, r.car_yaw_deg, r.yaw_offset_deg, r.weighted_rmse)

\* C5: the selected record of a frame_index is the first, in input order, of
\* the records that share the least weighted_rmse; the selection is a
\* function of the directory alone.
C5_FirstOfTies ==
    Selected =>
        \A k \in DOMAIN best_candidates :
            FileColumns(best_candidates[k]) = FirstBest(best_candidates[k].frame_index)

\* C5 witness: two files, the least score of frame 0 is shared by a row of
\* each, the rows differ, and the row of the first file is selected.
C5_Witness ==
    /\ Selected
    /\ Len(dir) = 2
    /\ \E i \in DOMAIN dir[1], j \in DOMAIN dir[2] :
          /\ dir[1][i].frame_index = 0
          /\ dir[2][j].frame_index = 0
          /\ dir[1][i].weighted_rmse = dir[2][j].weighted_rmse
          /\ dir[1][i] # dir[2][j]
          /\ \A r \in Range(InputOrder) :
                r.frame_index = 0 => dir[1][i].weighted_rmse <= r.weighted_rmse
          /\ \E k \in DOMAIN best_candidates :
                FileColumns(best_candidates[k]) = dir[1][i]

\* C10 as stated: a directory without frame files is no error; the frame
\* table and the best candidates are empty.
C10_EmptyInputIsNoError ==
    (Len(dir) = 0 /\ pc # "start") =>
        /\ raised = "none"
        /\ df = <<>>
        /\ best_candidates = <<>>

----------------------------------------------------------------------------
(* Properties of error_surface.py.                                         *)

\* The candidate yaws have been given their unwrapped values.
Unwrapped == pc \in {"surface_solution", "surface_render", "surface_done"}

\* The wrapped candidate yaws of the table.
CandidateYaws == {df[i].candidate_yaw : i \in DOMAIN df}

\* The candidates are those of the sequence 170, 175, 180, 185, 190, which
\* wraps to 170, 175, -180, -175, -170.
WrappingSequence ==
    /\ Unwrapped
    /\ {df[i].car_yaw_deg + df[i].yaw_offset_deg : i \in DOMAIN df}
          = {170, 175, 180, 185, 190}
    /\ CandidateYaws = {170, 175, -180, -175, -170}

\* The unwrapped values of the wrapped yaws 170, 175, -180, -175, -170.
UnwrappedOfSequence ==
    <<yaw_map[170], yaw_map[175], yaw_map[-180], yaw_map[-175], yaw_map[-170]>>

\* Every row carries the unwrapped value of its wrapped yaw.
RowsFollowMap ==
    \A i \in DOMAIN df : df[i].candidate_yaw_unwrapped = yaw_map[df[i].candidate_yaw]

\* C6 as stated: the sequence 170, 175, 180 (= -180), -175, -170 is
\* unwrapped, in that order, to 170, 175, 180, 185, 190.
C6_UnwrapsUpwards ==
    WrappingSequence =>
        /\ UnwrappedOfSequence = <<170, 175, 180, 185, 190>>
        /\ RowsFollowMap

\* C6 as amended: the sequence is unwrapped, in that order, to the
\* increasing sequence -190, -185, -180, -175, -170.
C6_UnwrapsDownwards ==
    WrappingSequence =>
        /\ UnwrappedOfSequence = <<-190, -185, -180, -175, -170>>
        /\ RowsFollowMap

\* C6 witness: the wrapping sequence has been read, wrapped and unwrapped.
C6_Witness == WrappingSequence /\ yaw_sorted = <<-180, -175, -170, 170, 175>>

\* C7: the unwrapped values of two wrapped yaws adjacent in ascending
\* sorted-unique order differ by at most 180 degrees in magnitude.
C7_AdjacentWithinHalfTurn ==
    Unwrapped =>
        \A a, b \in CandidateYaws :
            (a < b /\ ~ \E c \in CandidateYaws : a < c /\ c < b)
                => Abs(yaw_map[b] - yaw_map[a]) <= 180

\* C7 witness: the wrapped yaws are -170 and 170, 340 apart, and their
\* unwrapped values are 20 apart.
C7_Witness ==
    /\ Unwrapped
    /\ CandidateYaws = {-170, 170}
    /\ Abs(yaw_map[170] - yaw_map[-170]) = 20

\* C8: the unwrap changes every wrapped yaw by a whole multiple of 360, it
\* leaves the least wrapped yaw unchanged, and a single yaw maps to itself.
C8_WholeTurnsOnly ==
    Unwrapped =>
        /\ \A i \in DOMAIN df :
              (df[i].candidate_yaw_unwrapped - df[i].candidate_yaw) % 360 = 0
        /\ \A a \in CandidateYaws :
              (\A b \in CandidateYaws : a <= b) => yaw_map[a] = a
        /\ \A a \in CandidateYaws : CandidateYaws = {a} => yaw_map = (a :> a)

\* C8 witness: a row has been moved down by one turn while the row of the
\* least wrapped yaw kept its value.
C8_Witness ==
    /\ Unwrapped
    /\ \E i, j \in DOMAIN df :
          /\ df[i].candidate_yaw_unwrapped = df[i].candidate_yaw - 360
          /\ df[j].candidate_yaw_unwrapped = df[j].candidate_yaw
          /\ \A k \in DOMAIN df : df[j].candidate_yaw <= df[k].candidate_yaw

\* delta_weighted_rmse has been computed.
Derived ==
    pc \in {"surface_sort", "surface_unwrap", "surface_map", "surface_solution",
            "surface_render", "surface_done"}

\* C12: every candidate record has delta_weighted_rmse >= 0, every
\* frame_index has a record whose delta_weighted_rmse is 0, and the record
\* that the selection by idxmin picks for a frame is such a record.
C12_DeltaNonNegativeZeroAtBest ==
    Derived =>
        /\ \A i \in DOMAIN df : df[i].delta_weighted_rmse >= 0
        /\ \A f \in FramesOf(df) :
              \E i \in Group(df, f) : df[i].delta_weighted_rmse = 0
        /\ \A k \in DOMAIN BestCandidates(df) :
              BestCandidates(df)[k].delta_weighted_rmse = 0

\* Two frames, the least score of one above that of the other, and a frame
\* with a record above its best candidate.
C12_Witness ==
    /\ Derived
    /\ \E i, j \in DOMAIN df :
          /\ df[i].frame_index # df[j].frame_index
          /\ df[i].delta_weighted_rmse = 0
          /\ df[j].delta_weighted_rmse = 0
          /\ df[i].weighted_rmse > df[j].weighted_rmse
    /\ \E i, j \in DOMAIN df :
          /\ df[i].frame_index = df[j].frame_index
          /\ df[i].delta_weighted_rmse > 0
          /\ df[j].delta_weighted_rmse = 0

\* The solution yaws have been unwrapped for the overlay.
OverlayReady == pc \in {"surface_render", "surface_done"}

\* The solution yaw of row i, wrapped as the candidate yaws are.
SolutionYawWrapped(i) == WrapDeg(solution_df[i].car_yaw_deg)

\* C13 as stated: whenever the wrapped solution yaw of a frame is one of the
\* wrapped candidate yaws, the unwrapped solution yaw plotted for the frame
\* is the unwrapped value given to that candidate yaw.
C13_OverlayOnCandidateAxis ==
    OverlayReady =>
        \A i \in DOMAIN solution_df :
            SolutionYawWrapped(i) \in DOMAIN yaw_map =>
                solution_yaw_unwrapped[i] = yaw_map[SolutionYawWrapped(i)]

----------------------------------------------------------------------------
(* Properties of distribution.py.                                          *)

\* C9 as stated: a run that an input error has ended has written no output
\* file.
C9_NoOutputOnAbort == raised # "none" => written = {}

\* The two matched sequences of the comparison are the weighted_rmse columns
\* of the first two files; their differences are delta_wrmse.
LengthsDiffer == Len(csvs) >= 2 /\ Len(csvs[1].rows) # Len(csvs[2].rows)

\* At least two differences, all of one value: their standard deviation is 0.
DifferencesAllEqual ==
    /\ Len(delta_wrmse) >= 2
    /\ \A i, j \in DOMAIN delta_wrmse : delta_wrmse[i] = delta_wrmse[j]

\* C11 as stated: a comparison of two matched sequences whose differences
\* all have the same value ends in a DegenerateInput error and one of
\* sequences of different length in a LengthMismatch error, so no such run
\* ends normally.
C11_DegenerateOrMismatchedNeverCompletes ==
    pc = "dist_done" => ~DifferencesAllEqual /\ ~LengthsDiffer

====
